---------------------------- MODULE Spec2Model ----------------------------
(***************************************************************************)
(* A model of package turbo (src/turbo.go): the Turbolinks redirect bridge *)
(* (Handler and its responseStaller) and the template renderer (Render).   *)
(*                                                                         *)
(* Text is modelled as a sequence of one-character strings, so that the    *)
(* conversions of the code (cookie sanitising, cookie parsing, JavaScript  *)
(* escaping) are computed character by character.  A header collection is  *)
(* a record of value lists, as http.Header is a map from a key to a list   *)
(* of values.                                                              *)
(***************************************************************************)
EXTENDS Integers, Sequences, FiniteSets, TLC

VARIABLES
    pc,        \* position of Handler: "idle", "serving" (inside h.ServeHTTP), "done"
    req,       \* the request being served
    w,         \* the real http.ResponseWriter of the request
    rs,        \* the responseStaller of the request
    hops,      \* the calls the wrapped handler has made on its writer so far
    ev,        \* the events of the request, in order
    jar,       \* the client's cookie jar: cookie path -> list of at most one value
    pending,   \* the Location of the redirect that set the cookie now in the jar
    opt,       \* Render.opt: the Options of the Render
    funcs,     \* the helper functions bound on Render.templates (shared by the set)
    templates, \* Render.templates: the names the set holds, and whether it was executed
    rcall,     \* the arguments of the last Render.HTML or Render.String call
    rbuf,      \* the intermediate buffer of that call when evaluation ended
    rwr,       \* the http.ResponseWriter that call was given
    rret,      \* what that call returned
    wk,        \* the requests rendering concurrently: worker -> its position and data
    fjar,      \* the client's jar of flash cookies: cookie path -> list of at most one value
    fl         \* the last request that called Flash or GetFlash, and what came of it

bridgeVars == <<pc, req, w, rs, hops, ev, jar, pending>>

renderVars == <<opt, funcs, templates, rcall, rbuf, rwr, rret>>

workerVars == <<wk>>

flashVars == <<fjar, fl>>

vars == <<pc, req, w, rs, hops, ev, jar, pending,
          opt, funcs, templates, rcall, rbuf, rwr, rret, wk, fjar, fl>>

(***************************************************************************)
(* Bounds and input sets.                                                  *)
(***************************************************************************)
\* The number of calls the wrapped handler makes on its writer in one request.
MaxOps == 3

StatusOK == 200

StatusFound == 302

StatusInternalServerError == 500

\* The status codes a wrapped handler passes to WriteHeader.
Codes == {StatusOK, StatusFound}

\* The payloads a wrapped handler passes to Write.
Payloads == {"a", "b"}

LocRoot == <<"/">>

\* A location with bytes that a cookie value cannot carry and that JavaScript
\* escapes.
LocOdd == <<"/", "p", ";", "\"", "<">>

\* The values a wrapped handler sets as its Location header.
Locations == {LocRoot, LocOdd}

\* The length of the Location values the escaping is checked for.
MaxLocationLen == 2

\* The characters a script could be broken with, and a plain one.
ScriptChars == {"/", "\"", "'", "\\", "\n", "\r", "<", ">"}

\* Every non-empty Location over these characters, up to the length bound.
ScriptLocations == UNION {[1..n -> ScriptChars] : n \in 1..MaxLocationLen}

\* Request paths, as lists of segments: / and /posts/1.
Paths == {<<>>, <<"posts", "1">>}

Methods == {"GET", "POST"}

\* Turbolinks-Referrer request header values; "" is an absent header.
Referrers == {"", "http://localhost:3000/redirect"}

\* X-Forwarded-Proto request header values; <<>> is an absent header.
ForwardedProtos == {<<>>, <<"H", "T", "T", "P", "S">>}

TurbolinksCookie == "_turbolinks_location"

\* A raw cookie value net/http refuses: it holds a double quote inside.
MalformedCookie == <<"/", "\"", "p">>

\* The Cookie headers a client that does not follow its jar sends under the
\* navigation cookie's name: none, a malformed one, a malformed one before a
\* well-formed one.
ForgedCookies == {<<>>, <<MalformedCookie>>, <<MalformedCookie, LocRoot>>}

(***************************************************************************)
(* net/http: headers, cookies.                                             *)
(***************************************************************************)
EmptyHeader ==
    [Location |-> <<>>, ContentType |-> <<>>, XContentTypeOptions |-> <<>>,
     TurbolinksLocation |-> <<>>, SetCookie |-> <<>>]

\* http.Header.Get: the first value of the key, "" when there is none.
HeaderGet(h, key) == IF h[key] = <<>> THEN <<>> ELSE h[key][1]

HeaderSet(h, key, v) == [h EXCEPT ![key] = <<v>>]

HeaderDel(h, key) == [h EXCEPT ![key] = <<>>]

HeaderAdd(h, key, v) == [h EXCEPT ![key] = Append(@, v)]

\* net/http validCookieValueByte: 0x20 <= b < 0x7f, and not '"', ';' or '\'.
ValidCookieValueByte(c) == c \notin {"\"", ";", "\\", "\n", "\r", "\t"}

\* net/http sanitizeCookieValue: invalid bytes are dropped, and a value with a
\* space or a comma is wrapped in double quotes.
SanitizeCookieValue(v) ==
    LET s == SelectSeq(v, ValidCookieValueByte)
    IN  IF Len(s) = 0 THEN s
        ELSE IF \E i \in 1..Len(s) : s[i] \in {" ", ","}
             THEN <<"\"">> \o s \o <<"\"">>
             ELSE s

\* net/http parseCookieValue (allowDoubleQuote): surrounding double quotes are
\* stripped; a value with an invalid byte is refused.
ParseCookieValue(raw) ==
    LET v == IF Len(raw) > 1 /\ raw[1] = "\"" /\ raw[Len(raw)] = "\""
             THEN SubSeq(raw, 2, Len(raw) - 1)
             ELSE raw
    IN  IF \A i \in 1..Len(v) : ValidCookieValueByte(v[i])
        THEN [ok |-> TRUE, value |-> v]
        ELSE [ok |-> FALSE, value |-> <<>>]

\* http.Cookie as Cookie.String() writes it into a Set-Cookie header: the value
\* sanitised; Path is a list of at most one path; MaxAge < 0 is "Max-Age=0".
CookieString(name, value, path, maxAge, httpOnly, secure) ==
    [name |-> name, value |-> SanitizeCookieValue(value), Path |-> path,
     MaxAge |-> maxAge, HttpOnly |-> httpOnly, Secure |-> secure]

\* http.SetCookie: adds the cookie's string to the Set-Cookie header.
SetCookie(h, cookie) == HeaderAdd(h, "SetCookie", cookie)

\* http.Request.Cookie: the first cookie of the Cookie header with the name and
\* a valid value; the Cookie header is the list of raw values sent under the
\* name.
RECURSIVE RequestCookie(_)
RequestCookie(raws) ==
    IF raws = <<>> THEN [ok |-> FALSE, value |-> <<>>]
    ELSE IF ParseCookieValue(Head(raws)).ok THEN ParseCookieValue(Head(raws))
    ELSE RequestCookie(Tail(raws))

(***************************************************************************)
(* The client (a browser with the Turbolinks script): RFC 6265.            *)
(***************************************************************************)
\* RFC 6265 5.1.4: the default path of a cookie set without a Path attribute
\* is the request path up to its last "/".
DefaultPath(p) == IF Len(p) <= 1 THEN <<>> ELSE SubSeq(p, 1, Len(p) - 1)

\* The paths a cookie of the jar can have.
CookiePaths == {DefaultPath(p) : p \in Paths} \cup {<<>>}

EmptyJar == [cp \in CookiePaths |-> <<>>]

\* RFC 6265 5.3: a Set-Cookie is stored under (name, path), the path its Path
\* attribute or else the default path of the request; an expired one removes
\* the cookie stored under the same (name, path).
StoreCookie(j, path, c) ==
    LET cp == IF c.Path = <<>> THEN DefaultPath(path) ELSE c.Path[1]
    IN  IF c.MaxAge < 0 THEN [j EXCEPT ![cp] = <<>>]
        ELSE [j EXCEPT ![cp] = <<c.value>>]

RECURSIVE StoreCookies(_, _, _)
StoreCookies(j, path, cs) ==
    IF cs = <<>> THEN j
    ELSE StoreCookies(StoreCookie(j, path, Head(cs)), path, Tail(cs))

\* RFC 6265 5.4: the Cookie header lists the matching cookies, those with
\* longer paths first.
RECURSIVE CookieHeaderFrom(_, _, _)
CookieHeaderFrom(j, path, n) ==
    IF n < 0 THEN <<>>
    ELSE LET here == SubSeq(path, 1, n)
         IN  (IF here \in CookiePaths THEN j[here] ELSE <<>>)
             \o CookieHeaderFrom(j, path, n - 1)

CookieHeader(j, path) == CookieHeaderFrom(j, path, Len(path))

(***************************************************************************)
(* net/http: the real response writer.                                     *)
(***************************************************************************)
NewWriter ==
    [hdr |-> EmptyHeader, wroteHeader |-> FALSE, status |-> 0,
     sent |-> EmptyHeader, body |-> <<>>, panicked |-> FALSE]

\* net/http checkWriteHeaderCode: a code outside 100..999 panics.
ValidStatus(code) == code >= 100 /\ code <= 999

\* ResponseWriter.WriteHeader: the first call sends the status with the
\* headers as they are then; later calls are ignored.
WriterWriteHeader(rw, code) ==
    IF rw.panicked \/ rw.wroteHeader THEN rw
    ELSE IF ~ValidStatus(code) THEN [rw EXCEPT !.panicked = TRUE]
    ELSE [rw EXCEPT !.wroteHeader = TRUE, !.status = code, !.sent = rw.hdr]

\* ResponseWriter.Write: sends the headers with status 200 if they are not
\* sent yet, then the bytes.
WriterWrite(rw, b) ==
    IF rw.panicked THEN rw
    ELSE LET r1 == WriterWriteHeader(rw, StatusOK)
         IN  [r1 EXCEPT !.body = @ \o b]

\* The server finishing a request whose handler returned: headers not sent yet
\* go out with status 200.
WriterFinish(rw) == WriterWriteHeader(rw, StatusOK)

(***************************************************************************)
(* responseStaller.                                                        *)
(***************************************************************************)
NoStaller == [made |-> 0, sends |-> 0, code |-> 0, buf |-> <<>>]

NewStaller == [made |-> 1, sends |-> 0, code |-> 0, buf |-> <<>>]

StallerWrite(s, b) == [s EXCEPT !.buf = @ \o b]

StallerWriteHeader(s, code) == [s EXCEPT !.code = code]

\* SendResponse: the recorded code to the real writer, then the buffer.
SendResponseWriter(s, rw) == WriterWrite(WriterWriteHeader(rw, s.code), s.buf)

SendResponseStaller(s) == [s EXCEPT !.sends = @ + 1]

(***************************************************************************)
(* IsTLS and the script of the POST conversion.                            *)
(***************************************************************************)
ToLowerChar(c) ==
    CASE c = "H" -> "h" [] c = "T" -> "t" [] c = "P" -> "p" [] c = "S" -> "s"
      [] OTHER -> c

ToLower(s) == [i \in 1..Len(s) |-> ToLowerChar(s[i])]

\* An IsTLS that compares the header with https as it is.
IsTLSExact(r) == r.tls \/ r.xfp = <<"h", "t", "t", "p", "s">>

IsTLS(r) == r.tls \/ ToLower(r.xfp) = <<"h", "t", "t", "p", "s">>

\* An escaping that leaves quotes and backslashes as they are.
JSEscapeCharMarkupOnly(c) ==
    CASE c = "<"  -> <<"\\", "u", "0", "0", "3", "C">>
      [] c = ">"  -> <<"\\", "u", "0", "0", "3", "E">>
      [] c = "\n" -> <<"\\", "u", "0", "0", "0", "A">>
      [] c = "\r" -> <<"\\", "u", "0", "0", "0", "D">>
      [] OTHER -> <<c>>

\* text/template JSEscape of one character.
JSEscapeChar(c) ==
    CASE c = "\\" -> <<"\\", "\\">>
      [] c = "'"  -> <<"\\", "'">>
      [] c = "\"" -> <<"\\", "\"">>
      [] c = "<"  -> <<"\\", "u", "0", "0", "3", "C">>
      [] c = ">"  -> <<"\\", "u", "0", "0", "3", "E">>
      [] c = "&"  -> <<"\\", "u", "0", "0", "2", "6">>
      [] c = "="  -> <<"\\", "u", "0", "0", "3", "D">>
      [] c = "\n" -> <<"\\", "u", "0", "0", "0", "A">>
      [] c = "\r" -> <<"\\", "u", "0", "0", "0", "D">>
      [] c = "\t" -> <<"\\", "u", "0", "0", "0", "9">>
      [] OTHER -> <<c>>

RECURSIVE JSEscapeString(_)
JSEscapeString(s) ==
    IF s = <<>> THEN <<>> ELSE JSEscapeChar(Head(s)) \o JSEscapeString(Tail(s))

ScriptHead == <<"Turbolinks.clearCache();Turbolinks.visit(\"">>

ScriptTail == <<"\", {action: \"advance\"});">>

VisitScript(location) == ScriptHead \o JSEscapeString(location) \o ScriptTail


(***************************************************************************)
(* Handler: the middleware.  One request is served at a time: Serve* is    *)
(* Handler up to its call of h.ServeHTTP, Handler* are the calls the        *)
(* wrapped handler makes on the writer it was given, Return* is Handler    *)
(* from the return of h.ServeHTTP to its own return.                       *)
(***************************************************************************)
NoRequest ==
    [referer |-> "", method |-> "GET", path |-> <<>>, tls |-> FALSE,
     xfp |-> <<>>, cookies |-> <<>>, pending |-> <<>>]

\* The request a client with cookie jar j sends; pending records the Location
\* of the redirect that the navigation cookie it carries came from.
NewRequest(j, p, referer, method, path, tls, xfp) ==
    [referer |-> referer, method |-> method, path |-> path, tls |-> tls,
     xfp |-> xfp, cookies |-> CookieHeader(j, path),
     pending |-> IF CookieHeader(j, path) = <<>> THEN <<>> ELSE p]

Marked(r) == r.referer # ""

\* A Handler that wraps every response, marked or not.
WrappedAlways(r) == TRUE

\* Whether Handler wrapped the response of request r in a responseStaller.
Wrapped(r) == Marked(r)

\* The pending-navigation check of a marked request that is not a POST: the
\* cookie's value is advertised and the cookie expired, on the real writer.
PendingCheck(rw, r) ==
    LET cookie == RequestCookie(r.cookies)
    IN  IF cookie.ok
        THEN [rw EXCEPT !.hdr =
                 SetCookie(HeaderSet(@, "TurbolinksLocation", cookie.value),
                           CookieString(TurbolinksCookie, cookie.value, <<>>,
                                        -1, FALSE, FALSE))]
        ELSE rw

PendingEvents(r) ==
    IF RequestCookie(r.cookies).ok THEN <<"advertise", "expire">> ELSE <<>>

ServePassthrough ==
    /\ pc # "serving"
    /\ \E method \in Methods, path \in Paths, tls \in BOOLEAN,
          xfp \in ForwardedProtos :
          req' = NewRequest(jar, pending, "", method, path, tls, xfp)
    /\ w' = NewWriter
    /\ rs' = NoStaller
    /\ hops' = <<>>
    /\ ev' = <<"serve">>
    /\ pc' = "serving"
    /\ UNCHANGED <<jar, pending, renderVars, workerVars, flashVars>>

ServePost ==
    /\ pc # "serving"
    /\ \E referer \in Referrers \ {""}, path \in Paths, tls \in BOOLEAN,
          xfp \in ForwardedProtos :
          req' = NewRequest(jar, pending, referer, "POST", path, tls, xfp)
    /\ w' = NewWriter
    /\ rs' = NewStaller
    /\ hops' = <<>>
    /\ ev' = <<"new", "serve">>
    /\ pc' = "serving"
    /\ UNCHANGED <<jar, pending, renderVars, workerVars, flashVars>>

ServeGet ==
    /\ pc # "serving"
    /\ \E referer \in Referrers \ {""}, method \in Methods \ {"POST"},
          path \in Paths, tls \in BOOLEAN, xfp \in ForwardedProtos :
          LET r == NewRequest(jar, pending, referer, method, path, tls, xfp)
          IN  /\ req' = r
              /\ w' = PendingCheck(NewWriter, r)
              /\ ev' = PendingEvents(r) \o <<"new", "serve">>
    /\ rs' = NewStaller
    /\ hops' = <<>>
    /\ pc' = "serving"
    /\ UNCHANGED <<jar, pending, renderVars, workerVars, flashVars>>

\* A marked request that is not a POST, from a client that writes its Cookie
\* header itself.
ServeForged ==
    /\ pc # "serving"
    /\ \E referer \in Referrers \ {""}, path \in Paths, cookies \in ForgedCookies :
          LET r == [NewRequest(jar, pending, referer, "GET", path, FALSE, <<>>)
                       EXCEPT !.cookies = cookies, !.pending = <<>>]
          IN  /\ req' = r
              /\ w' = PendingCheck(NewWriter, r)
              /\ ev' = PendingEvents(r) \o <<"new", "serve">>
    /\ rs' = NewStaller
    /\ hops' = <<>>
    /\ pc' = "serving"
    /\ UNCHANGED <<jar, pending, renderVars, workerVars, flashVars>>

\* The wrapped handler h: what it calls on the writer Handler gave it.
HandlerWriteHeader ==
    /\ pc = "serving" /\ Len(hops) < MaxOps
    /\ \E code \in Codes :
          /\ hops' = Append(hops, [op |-> "WriteHeader", code |-> code])
          /\ IF Wrapped(req)
             THEN rs' = StallerWriteHeader(rs, code) /\ w' = w
             ELSE w' = WriterWriteHeader(w, code) /\ rs' = rs
    /\ UNCHANGED <<pc, req, ev, jar, pending, renderVars, workerVars, flashVars>>

HandlerWrite ==
    /\ pc = "serving" /\ Len(hops) < MaxOps
    /\ \E b \in Payloads :
          /\ hops' = Append(hops, [op |-> "Write", b |-> b])
          /\ IF Wrapped(req)
             THEN rs' = StallerWrite(rs, <<b>>) /\ w' = w
             ELSE w' = WriterWrite(w, <<b>>) /\ rs' = rs
    /\ UNCHANGED <<pc, req, ev, jar, pending, renderVars, workerVars, flashVars>>

\* w.Header().Set("Location", l): the staller's Header is the real writer's.
HandlerSetLocation ==
    /\ pc = "serving" /\ Len(hops) < MaxOps
    /\ \E l \in Locations :
          /\ hops' = Append(hops, [op |-> "Location", l |-> l])
          /\ w' = [w EXCEPT !.hdr = HeaderSet(@, "Location", l)]
    /\ UNCHANGED <<pc, req, rs, ev, jar, pending, renderVars, workerVars, flashVars>>

\* A handler that answers with a redirect only: it sets the Location header,
\* to any value, and calls nothing else.
ScriptSetLocation ==
    /\ pc = "serving" /\ hops = <<>>
    /\ \E l \in ScriptLocations :
          /\ hops' = Append(hops, [op |-> "Location", l |-> l])
          /\ w' = [w EXCEPT !.hdr = HeaderSet(@, "Location", l)]
    /\ UNCHANGED <<pc, req, rs, ev, jar, pending, renderVars, workerVars, flashVars>>

\* SendResponse on the staller st.rs over the real writer st.w.
SendResponse(st) ==
    [rs |-> SendResponseStaller(st.rs),
     w  |-> SendResponseWriter(st.rs, st.w),
     ev |-> Append(st.ev, "send")]

\* A POST conversion that leaves the status the handler recorded.
PostConvertKeepStatus(st) ==
    LET location == HeaderGet(st.w.hdr, "Location")
    IN  IF location # <<>>
        THEN LET h1 == HeaderSet(st.w.hdr, "ContentType", "text/javascript")
                 h2 == HeaderSet(h1, "XContentTypeOptions", "nosniff")
                 h3 == HeaderDel(h2, "Location")
                 s2 == StallerWrite(st.rs, VisitScript(location))
             IN  [rs |-> s2, w |-> [st.w EXCEPT !.hdr = h3],
                  ev |-> Append(st.ev, "convert")]
        ELSE st

\* The POST conversion: a redirect becomes a 200 script reply.
PostConvert(st) ==
    LET location == HeaderGet(st.w.hdr, "Location")
    IN  IF location # <<>>
        THEN LET h1 == HeaderSet(st.w.hdr, "ContentType", "text/javascript")
                 h2 == HeaderSet(h1, "XContentTypeOptions", "nosniff")
                 s1 == StallerWriteHeader(st.rs, StatusOK)
                 h3 == HeaderDel(h2, "Location")
                 s2 == StallerWrite(s1, VisitScript(location))
             IN  [rs |-> s2, w |-> [st.w EXCEPT !.hdr = h3],
                  ev |-> Append(st.ev, "convert")]
        ELSE st

\* The navigation cookie of a redirect answered to a request that is not a POST.
NavigationCookie(st, r) ==
    LET location == HeaderGet(st.w.hdr, "Location")
    IN  IF location # <<>>
        THEN [rs |-> st.rs,
              w  |-> [st.w EXCEPT !.hdr =
                         SetCookie(@, CookieString(TurbolinksCookie, location,
                                                   <<<<>>>>, 0, TRUE, IsTLS(r)))],
              ev |-> Append(st.ev, "setcookie")]
        ELSE st

\* A Handler that flushes a POST only when it converted a redirect.
FinishPostSendOnRedirect(st) ==
    IF HeaderGet(st.w.hdr, "Location") # <<>>
    THEN SendResponse(PostConvert(st))
    ELSE st

\* A Handler that sets the navigation cookie for the redirect of a POST too.
FinishPostSetsCookie(st) == SendResponse(PostConvert(NavigationCookie(st, req)))

\* Handler after h.ServeHTTP has returned, for a POST.
FinishPost(st) == SendResponse(PostConvert(st))

\* A Handler that flushes before it sets the navigation cookie.
FinishGetSendFirst(st, r) == NavigationCookie(SendResponse(st), r)

\* Handler after h.ServeHTTP has returned, for a marked request not a POST.
FinishGet(st, r) == SendResponse(NavigationCookie(st, r))

\* The response reaches the client unless the server's goroutine panicked.
Delivered(rw) == ~rw.panicked

\* The client stores the cookies of a delivered response.
ClientJar(j, r, rw) ==
    IF Delivered(rw) THEN StoreCookies(j, r.path, rw.sent.SetCookie) ELSE j

\* The Location whose navigation cookie the jar holds after the response.
ClientPending(p, j2, r, rw) ==
    IF Delivered(rw) /\ \E i \in 1..Len(rw.sent.SetCookie) :
                           rw.sent.SetCookie[i].MaxAge >= 0
    THEN <<HeaderGet(rw.sent, "Location")>>
    ELSE IF \A cp \in CookiePaths : j2[cp] = <<>> THEN <<>> ELSE p

Returned(st) ==
    /\ rs' = st.rs
    /\ w' = WriterFinish(st.w)
    /\ ev' = st.ev
    /\ jar' = ClientJar(jar, req, WriterFinish(st.w))
    /\ pending' = ClientPending(pending, ClientJar(jar, req, WriterFinish(st.w)),
                                req, WriterFinish(st.w))
    /\ pc' = "done"
    /\ UNCHANGED <<req, hops, renderVars, workerVars, flashVars>>

ReturnPassthrough ==
    /\ pc = "serving" /\ ~Marked(req)
    /\ Returned([rs |-> rs, w |-> w, ev |-> Append(ev, "returned")])

ReturnPost ==
    /\ pc = "serving" /\ Marked(req) /\ req.method = "POST"
    /\ Returned(FinishPost([rs |-> rs, w |-> w, ev |-> Append(ev, "returned")]))

ReturnGet ==
    /\ pc = "serving" /\ Marked(req) /\ req.method # "POST"
    /\ Returned(FinishGet([rs |-> rs, w |-> w, ev |-> Append(ev, "returned")],
                          req))

BridgeInit ==
    /\ pc = "idle"
    /\ req = NoRequest
    /\ w = NewWriter
    /\ rs = NoStaller
    /\ hops = <<>>
    /\ ev = <<>>
    /\ jar = EmptyJar
    /\ pending = <<>>

(***************************************************************************)
(* Flash messages: Render.Flash, Render.GetFlash and the client's jar.     *)
(***************************************************************************)
DefaultFlashCookieName == "_turbo_message"

\* The characters of a flash message and their bytes.
MessageChars == {"h", "i", "~"}

ByteOf(c) == CASE c = "h" -> 104 [] c = "i" -> 105 [] c = "~" -> 126

RECURSIVE Bytes(_)
Bytes(t) == IF t = <<>> THEN <<>> ELSE <<ByteOf(Head(t))>> \o Bytes(Tail(t))

\* string(bytes), for the bytes the messages are made of.
RECURSIVE Chars(_)
Chars(bs) ==
    IF bs = <<>> THEN <<>>
    ELSE <<CHOOSE c \in MessageChars : ByteOf(c) = Head(bs)>> \o Chars(Tail(bs))

\* The messages a handler flashes.
MaxMessageLen == 2

Messages ==
    UNION {[1..n -> MessageChars] : n \in 1..MaxMessageLen}

\* encoding/base64 URLEncoding: the alphabet, with "=" as padding.
Base64Alphabet ==
    <<"A", "B", "C", "D", "E", "F", "G", "H", "I", "J", "K", "L", "M", "N",
      "O", "P", "Q", "R", "S", "T", "U", "V", "W", "X", "Y", "Z",
      "a", "b", "c", "d", "e", "f", "g", "h", "i", "j", "k", "l", "m", "n",
      "o", "p", "q", "r", "s", "t", "u", "v", "w", "x", "y", "z",
      "0", "1", "2", "3", "4", "5", "6", "7", "8", "9", "-", "_">>

Base64Char(v) == Base64Alphabet[v + 1]

IsBase64Char(c) == \E i \in 1..Len(Base64Alphabet) : Base64Alphabet[i] = c

Base64Value(c) == (CHOOSE i \in 1..Len(Base64Alphabet) : Base64Alphabet[i] = c) - 1

\* base64.URLEncoding.EncodeToString: three bytes become four characters; one
\* or two bytes left over become two or three characters and padding.
RECURSIVE EncodeToString(_)
EncodeToString(bs) ==
    IF bs = <<>> THEN <<>>
    ELSE IF Len(bs) = 1
    THEN <<Base64Char(bs[1] \div 4), Base64Char((bs[1] % 4) * 16), "=", "=">>
    ELSE IF Len(bs) = 2
    THEN <<Base64Char(bs[1] \div 4),
           Base64Char((bs[1] % 4) * 16 + bs[2] \div 16),
           Base64Char((bs[2] % 16) * 4), "=">>
    ELSE <<Base64Char(bs[1] \div 4),
           Base64Char((bs[1] % 4) * 16 + bs[2] \div 16),
           Base64Char((bs[2] % 16) * 4 + bs[3] \div 64),
           Base64Char(bs[3] % 64)>>
         \o EncodeToString(SubSeq(bs, 4, Len(bs)))

\* base64.URLEncoding.DecodeString: four characters at a time; padding only
\* in the last group; anything else is a CorruptInputError.
RECURSIVE DecodeString(_)
DecodeString(t) ==
    IF t = <<>> THEN [ok |-> TRUE, bytes |-> <<>>]
    ELSE IF Len(t) < 4 \/ ~IsBase64Char(t[1]) \/ ~IsBase64Char(t[2])
    THEN [ok |-> FALSE, bytes |-> <<>>]
    ELSE LET v1 == Base64Value(t[1])
             v2 == Base64Value(t[2])
         IN  IF t[3] = "="
             THEN IF t[4] = "=" /\ Len(t) = 4
                  THEN [ok |-> TRUE, bytes |-> <<v1 * 4 + v2 \div 16>>]
                  ELSE [ok |-> FALSE, bytes |-> <<>>]
             ELSE IF ~IsBase64Char(t[3]) THEN [ok |-> FALSE, bytes |-> <<>>]
             ELSE LET v3 == Base64Value(t[3])
                  IN  IF t[4] = "="
                      THEN IF Len(t) = 4
                           THEN [ok |-> TRUE,
                                 bytes |-> <<v1 * 4 + v2 \div 16,
                                             (v2 % 16) * 16 + v3 \div 4>>]
                           ELSE [ok |-> FALSE, bytes |-> <<>>]
                      ELSE IF ~IsBase64Char(t[4])
                      THEN [ok |-> FALSE, bytes |-> <<>>]
                      ELSE LET rest == DecodeString(SubSeq(t, 5, Len(t)))
                           IN  [ok |-> rest.ok,
                                bytes |-> IF rest.ok
                                          THEN <<v1 * 4 + v2 \div 16,
                                                 (v2 % 16) * 16 + v3 \div 4,
                                                 (v3 % 4) * 64 + Base64Value(t[4])>>
                                               \o rest.bytes
                                          ELSE <<>>]

\* Render.Flash: a cookie with the name and the encoded message, and no Path.
Flash(h, message) ==
    SetCookie(h, CookieString(DefaultFlashCookieName,
                              EncodeToString(Bytes(message)), <<>>, 0,
                              FALSE, FALSE))

\* Render.GetFlash on a request whose Cookie header has the values raws under
\* the name: the message, and the headers with the cookie expired (the
\* request's cookie, which has a name and a value only, with MaxAge -1).
GetFlash(h, raws) ==
    LET cookie == RequestCookie(raws)
        message == DecodeString(cookie.value)
    IN  IF ~cookie.ok \/ ~message.ok
        THEN [message |-> <<>>, hdr |-> h]
        ELSE [message |-> Chars(message.bytes),
              hdr |-> SetCookie(h, CookieString(DefaultFlashCookieName,
                                                cookie.value, <<>>, -1,
                                                FALSE, FALSE))]

\* The number of times one message is read before the model stops reading.
MaxGets == 2

NoFlash ==
    [op |-> "", path |-> <<>>, message |-> <<>>, presented |-> <<>>,
     ret |-> <<>>, sent |-> <<>>, gets |-> 0]

FlashIdle == fjar = EmptyJar /\ fl = NoFlash

\* A request to path whose handler calls Flash(w, message) and returns; the
\* client has no flash cookie at the time.
FlashSet ==
    /\ \A cp \in CookiePaths : fjar[cp] = <<>>
    /\ \E path \in Paths, message \in Messages :
          LET rw == WriterFinish([NewWriter EXCEPT !.hdr = Flash(@, message)])
          IN  /\ fjar' = ClientJar(fjar, [path |-> path], rw)
              /\ fl' = [op |-> "set", path |-> path, message |-> message,
                        presented |-> <<>>, ret |-> <<>>,
                        sent |-> rw.sent.SetCookie, gets |-> 0]
    /\ UNCHANGED <<bridgeVars, renderVars, workerVars>>

\* A request to path, with the cookies the jar holds for it, whose handler
\* calls GetFlash(w, r) and returns.
FlashGet ==
    /\ fl.gets < MaxGets
    /\ \E path \in Paths :
          LET raws == CookieHeader(fjar, path)
              got == GetFlash(NewWriter.hdr, raws)
              rw == WriterFinish([NewWriter EXCEPT !.hdr = got.hdr])
          IN  /\ fjar' = ClientJar(fjar, [path |-> path], rw)
              /\ fl' = [fl EXCEPT !.op = "get", !.path = path,
                           !.presented = raws, !.ret = got.message,
                           !.sent = rw.sent.SetCookie,
                           !.gets = IF got.message # <<>> THEN @ + 1 ELSE @]
    /\ UNCHANGED <<bridgeVars, renderVars, workerVars>>


(***************************************************************************)
(* The template registry.  A template is a list of nodes: literal text,    *)
(* {{.}} (the data, HTML-escaped), a field of the data, and a call of the  *)
(* yield helper.  The fixtures are those of the tests: layout is           *)
(* head{{yield}}foot, content is <p>{{.}}</p>, badData reads a field.      *)
(***************************************************************************)
TextNode(t) == [k |-> "text", s |-> t]

DotNode == [k |-> "dot", s |-> ""]

FieldNode == [k |-> "field", s |-> ""]

YieldNode == [k |-> "yield", s |-> ""]

\* {{partial "n"}}
PartialNode(n) == [k |-> "partial", s |-> n]

\* {{if currentpage "p"}}here{{end}}
CurrentPageNode(p) == [k |-> "currentpage", s |-> p]

\* {{flash}}
FlashNode == [k |-> "flash", s |-> ""]

\* Render.templates after compileTemplatesFromDir: name -> parsed template.
\* The page page asks whether it is the current page and shows the flash
\* message.  The page home calls three partials: nav, which has the override nav-home,
\* side, which has none, and one the directory does not hold.
Templates ==
    "layout"   :> <<TextNode("head"), YieldNode, TextNode("foot")>> @@
    "content"  :> <<TextNode("<p>"), DotNode, TextNode("</p>")>> @@
    "about"    :> <<TextNode("<h1>"), DotNode, TextNode("</h1>")>> @@
    "badData"  :> <<TextNode("<i>"), FieldNode, TextNode("</i>")>> @@
    "home"     :> <<TextNode("<u>"), PartialNode("nav"), PartialNode("side"),
                    PartialNode("none"), TextNode("</u>")>> @@
    "page"     :> <<TextNode("<nav>"), CurrentPageNode("/about"), FlashNode,
                    TextNode("</nav>")>> @@
    "nav"      :> <<TextNode("nav:"), DotNode>> @@
    "nav-home" :> <<TextNode("homenav:"), DotNode>> @@
    "side"     :> <<TextNode("side")>>

\* Render.TemplateLookup(name) # nil.
TemplateLookup(name) == name \in templates.set

\* The data bindings of a render: two strings and a struct with the field.
Bindings ==
    {[kind |-> "string", text |-> <<"t", "e", "s", "t">>],
     [kind |-> "string", text |-> <<"<", "b", ">">>],
     [kind |-> "struct", text |-> <<"v">>]}

NoBinding == [kind |-> "", text |-> <<>>]

\* The request of a render: its URL path and the values its Cookie header
\* has under the flash cookie's name.  The tests render for GET / without
\* cookies.
TestRequest == [path |-> "/", flash |-> <<>>]

\* The requests of the renders that call the request's helpers.
HelperRequests ==
    {TestRequest,
     [path |-> "/", flash |-> <<EncodeToString(Bytes(<<"i">>))>>],
     [path |-> "/about", flash |-> <<EncodeToString(Bytes(<<"h", "i">>))>>]}

\* The pages those renders ask for, and their data.
HelperNames == {"page", "content"}

HelperBindings == {b \in Bindings : b.text = <<"t", "e", "s", "t">>}

\* The names a caller renders: pages of the registry and one that is missing.
RenderNames == {"content", "about", "badData", "home", "not/found"}

\* The names the requests that render at the same time ask for.
WorkerNames == {"content", "about", "badData", "not/found"}

RenderStatuses == {StatusOK, StatusFound, StatusInternalServerError}

Layouts == {"", "layout"}

\* html/template's escaping of one character of a {{.}} in HTML text.
HTMLEscapeChar(c) ==
    CASE c = "<"  -> "&lt;"
      [] c = ">"  -> "&gt;"
      [] c = "&"  -> "&amp;"
      [] c = "\"" -> "&#34;"
      [] c = "'"  -> "&#39;"
      [] OTHER    -> c

HTMLEscapeString(t) == [i \in 1..Len(t) |-> HTMLEscapeChar(t[i])]

NoError == [kind |-> "", name |-> "", root |-> ""]

\* The error of ExecuteTemplate for a name the set does not hold.
UndefinedError(name) == [kind |-> "undefined", name |-> name, root |-> name]

\* text/template ExecError: name is the template being executed, root the
\* template whose evaluation failed first.
ExecError(name, root) == [kind |-> "exec", name |-> name, root |-> root]

\* helperFuncs, the functions bound when the templates are parsed: yield
\* returns an error.
HelperFuncs ==
    [bound |-> FALSE, name |-> "", binding |-> NoBinding, req |-> TestRequest]

RECURSIVE ExecuteTemplate(_, _, _)
RECURSIVE ExecuteNodes(_, _, _, _)

\* The value of one node of template tname: its output, its error, and the
\* cookies the helpers it called set on the writer of their closure.
EvalNode(tname, n, data, f) ==
    CASE n.k = "text" -> [out |-> <<n.s>>, err |-> NoError, set |-> <<>>]
      [] n.k = "dot" ->
            [out |-> HTMLEscapeString(data.text), err |-> NoError, set |-> <<>>]
      [] n.k = "field" ->
            IF data.kind = "struct"
            THEN [out |-> HTMLEscapeString(data.text), err |-> NoError,
                  set |-> <<>>]
            ELSE [out |-> <<>>, err |-> ExecError(tname, tname), set |-> <<>>]
      [] n.k = "yield" ->
            IF ~f.bound
            THEN [out |-> <<>>, err |-> ExecError(tname, tname), set |-> <<>>]
            ELSE LET r == ExecuteTemplate(f.name, f.binding, f)
                 IN  IF r.err # NoError
                     THEN [out |-> <<>>, err |-> ExecError(tname, r.err.root),
                           set |-> r.set]
                     ELSE r
      [] n.k = "partial" ->
            \* helperFuncs' partial takes no argument: the call fails.
            IF ~f.bound
            THEN [out |-> <<>>, err |-> ExecError(tname, tname), set |-> <<>>]
            ELSE LET fullPartialName ==
                         IF TemplateLookup(n.s \o "-" \o f.name)
                         THEN n.s \o "-" \o f.name
                         ELSE n.s
                 IN  IF TemplateLookup(fullPartialName)
                     THEN LET r == ExecuteTemplate(fullPartialName, f.binding, f)
                          IN  IF r.err # NoError
                              THEN [out |-> <<>>,
                                    err |-> ExecError(tname, r.err.root),
                                    set |-> r.set]
                              ELSE r
                     ELSE [out |-> <<>>, err |-> NoError, set |-> <<>>]
      [] n.k = "currentpage" ->
            \* helperFuncs' currentpage is false for every page.
            [out |-> IF f.bound /\ n.s = f.req.path THEN <<"here">> ELSE <<>>,
             err |-> NoError, set |-> <<>>]
      [] n.k = "flash" ->
            \* helperFuncs' flash is the empty string.
            IF ~f.bound THEN [out |-> <<>>, err |-> NoError, set |-> <<>>]
            ELSE LET got == GetFlash(EmptyHeader, f.req.flash)
                 IN  [out |-> HTMLEscapeString(got.message), err |-> NoError,
                      set |-> got.hdr.SetCookie]

\* The nodes are evaluated in order into the buffer; the first error stops
\* the execution and leaves what was written before it.
ExecuteNodes(tname, nodes, data, f) ==
    IF nodes = <<>> THEN [out |-> <<>>, err |-> NoError, set |-> <<>>]
    ELSE LET r == EvalNode(tname, Head(nodes), data, f)
         IN  IF r.err # NoError THEN r
             ELSE LET rest == ExecuteNodes(tname, Tail(nodes), data, f)
                  IN  [out |-> r.out \o rest.out, err |-> rest.err,
                       set |-> r.set \o rest.set]

\* r.templates.ExecuteTemplate(buf, name, binding) with the helper functions f
\* bound on the set: what is in buf afterwards, the error, and the cookies
\* set on the way.
ExecuteTemplate(name, data, f) ==
    IF ~TemplateLookup(name)
    THEN [out |-> <<>>, err |-> UndefinedError(name), set |-> <<>>]
    ELSE ExecuteNodes(name, Templates[name], data, f)

(***************************************************************************)
(* Render.                                                                 *)
(***************************************************************************)
\* An addLayoutFuncs that binds only a set whose helpers are still the
\* defaults.
AddLayoutFuncsOnce(f, rq, name, binding) ==
    IF TemplateLookup(name) /\ ~f.bound
    THEN [bound |-> TRUE, name |-> name, binding |-> binding, req |-> rq]
    ELSE f

\* addLayoutFuncs: the closures over the request (and its writer), name and
\* binding are bound through the content template, if the set holds it;
\* Funcs binds them on the whole set.
AddLayoutFuncs(f, rq, name, binding) ==
    IF TemplateLookup(name)
    THEN [bound |-> TRUE, name |-> name, binding |-> binding, req |-> rq]
    ELSE f

\* compileTemplatesFromDir: a new set, with helperFuncs bound.
CompileTemplatesFromDir(f) == HelperFuncs

\* The set compileTemplatesFromDir leaves when nothing runs beside it: every
\* template of the directory, not executed yet.
CompiledTemplates == [set |-> DOMAIN Templates, escaped |-> FALSE]

\* html/template marks a set as executed the first time one of its templates
\* is looked up for execution; it refuses to parse into the set afterwards.
Escaped(t) == [t EXCEPT !.escaped = TRUE]

\* An HTML that wraps the page in the layout whatever the partial flag.
RenderPrepareAlwaysLayout(o, f, rq, name, binding, isPartial) ==
    LET f0 == IF o.IsDevelopment THEN CompileTemplatesFromDir(f) ELSE f
    IN  IF o.Layout # ""
        THEN [funcs |-> AddLayoutFuncs(f0, rq, name, binding),
              name |-> o.Layout, own |-> TemplateLookup(name)]
        ELSE [funcs |-> f0, name |-> name, own |-> FALSE]

\* The first half of HTML and String: the recompilation of development mode
\* and the choice of the layout.  The functions bound afterwards, the name
\* to execute, and whether the closures bound are those of this call (they
\* write to this call's writer).
RenderPrepare(o, f, rq, name, binding, isPartial) ==
    LET f0 == IF o.IsDevelopment THEN CompileTemplatesFromDir(f) ELSE f
    IN  IF o.Layout # "" /\ ~isPartial
        THEN [funcs |-> AddLayoutFuncs(f0, rq, name, binding),
              name |-> o.Layout, own |-> TemplateLookup(name)]
        ELSE [funcs |-> f0, name |-> name, own |-> FALSE]

\* The writer of a call after the evaluation r: the cookies the helpers set
\* are on it if the closures were bound by this call.
WriterAfter(own, r) ==
    [NewWriter EXCEPT !.hdr.SetCookie = IF own THEN r.set ELSE <<>>]

\* The text of an error, as http.Error writes it: the message and a newline.
ErrorBody(e) == <<"error", e.kind, e.name, e.root, "\n">>

\* http.Error.
HttpError(rw0, e, code) ==
    LET h1 == HeaderSet(rw0.hdr, "ContentType", "text/plain; charset=utf-8")
        h2 == HeaderSet(h1, "XContentTypeOptions", "nosniff")
    IN  WriterWrite(WriterWriteHeader([rw0 EXCEPT !.hdr = h2], code),
                    ErrorBody(e))

\* An HTML that executes the template straight into the response.
HTMLRespondStreaming(rw0, status, r) ==
    LET r1 == WriterWrite(WriterWriteHeader(rw0, status), r.out)
    IN  IF r.err # NoError
        THEN HttpError(r1, r.err, StatusInternalServerError)
        ELSE r1

\* The second half of HTML: r is what ExecuteTemplate left in the buffer and
\* returned.
HTMLRespond(rw0, status, r) ==
    IF r.err # NoError
    THEN HttpError(rw0, r.err, StatusInternalServerError)
    ELSE WriterWrite(WriterWriteHeader(rw0, status), r.out)

NoCall ==
    [fn |-> "", status |-> 0, name |-> "", binding |-> NoBinding,
     isPartial |-> FALSE, req |-> TestRequest]

\* Render.HTML(w, rq, status, name, binding, isPartial) on a Render with
\* options o and bound functions f, with a new writer w: the functions bound
\* afterwards, the intermediate buffer, the writer and the returned error.
HTMLResult(o, f, rq, status, name, binding, isPartial) ==
    LET p == RenderPrepare(o, f, rq, name, binding, isPartial)
        r == ExecuteTemplate(p.name, binding, p.funcs)
    IN  [funcs |-> p.funcs,
         buf   |-> r.out,
         wr    |-> HTMLRespond(WriterAfter(p.own, r), status, r),
         ret   |-> [err |-> r.err, str |-> <<>>]]

\* A String that wraps the page in the layout whatever the partial flag.
StringResultAlwaysLayout(o, f, rq, name, binding, isPartial) ==
    LET p == RenderPrepareAlwaysLayout(o, f, rq, name, binding, isPartial)
        r == ExecuteTemplate(p.name, binding, p.funcs)
    IN  [funcs |-> p.funcs,
         buf   |-> r.out,
         wr    |-> WriterAfter(p.own, r),
         ret   |-> [err |-> r.err,
                    str |-> IF r.err # NoError THEN <<>> ELSE r.out]]

\* Render.String(w, rq, name, binding, isPartial), likewise: the text is
\* returned, "" with an error, and nothing is written to w.
StringResult(o, f, rq, name, binding, isPartial) ==
    LET p == RenderPrepare(o, f, rq, name, binding, isPartial)
        r == ExecuteTemplate(p.name, binding, p.funcs)
    IN  [funcs |-> p.funcs,
         buf   |-> r.out,
         wr    |-> WriterAfter(p.own, r),
         ret   |-> [err |-> r.err,
                    str |-> IF r.err # NoError THEN <<>> ELSE r.out]]

\* A call of Render.HTML as a step of the Render.
HTMLCall(rq, status, name, binding, isPartial) ==
    LET res == HTMLResult(opt, funcs, rq, status, name, binding, isPartial)
    IN  /\ rcall' = [fn |-> "HTML", status |-> status, name |-> name,
                     binding |-> binding, isPartial |-> isPartial,
                     req |-> rq]
        /\ funcs' = res.funcs
        /\ templates' = Escaped(IF opt.IsDevelopment THEN CompiledTemplates
                                 ELSE templates)
        /\ rbuf' = res.buf
        /\ rwr' = res.wr
        /\ rret' = res.ret
        /\ UNCHANGED <<opt, bridgeVars, workerVars, flashVars>>

\* A call of Render.String as a step of the Render.
StringCall(rq, name, binding, isPartial) ==
    LET res == StringResult(opt, funcs, rq, name, binding, isPartial)
    IN  /\ rcall' = [fn |-> "String", status |-> 0, name |-> name,
                     binding |-> binding, isPartial |-> isPartial,
                     req |-> rq]
        /\ funcs' = res.funcs
        /\ templates' = Escaped(IF opt.IsDevelopment THEN CompiledTemplates
                                 ELSE templates)
        /\ rbuf' = res.buf
        /\ rwr' = res.wr
        /\ rret' = res.ret
        /\ UNCHANGED <<opt, bridgeVars, workerVars, flashVars>>

\* The renders of the tests: any status, name, data and partial flag, for the
\* request GET /.
HTML ==
    \E status \in RenderStatuses, name \in RenderNames, binding \in Bindings,
       isPartial \in BOOLEAN :
        HTMLCall(TestRequest, status, name, binding, isPartial)

String ==
    \E name \in RenderNames, binding \in Bindings, isPartial \in BOOLEAN :
        StringCall(TestRequest, name, binding, isPartial)

\* The renders of pages that call the request's helpers, for requests that
\* differ in path and flash cookie.
HelperHTML ==
    \E rq \in HelperRequests, name \in HelperNames, binding \in HelperBindings,
       isPartial \in BOOLEAN :
        HTMLCall(rq, StatusOK, name, binding, isPartial)

HelperString ==
    \E rq \in HelperRequests, name \in HelperNames, binding \in HelperBindings,
       isPartial \in BOOLEAN :
        StringCall(rq, name, binding, isPartial)

RenderIdle ==
    /\ funcs = HelperFuncs
    /\ templates = CompiledTemplates
    /\ rcall = NoCall
    /\ rbuf = <<>>
    /\ rwr = NewWriter
    /\ rret = [err |-> NoError, str |-> <<>>]

\* New(opts): any layout, development mode or not.
RenderInit ==
    /\ opt \in [Layout : Layouts, IsDevelopment : BOOLEAN]
    /\ RenderIdle

(***************************************************************************)
(* Requests that render through one Render at the same time.  Each is a    *)
(* call of HTML in three steps: the binding of the helpers, the execution  *)
(* of the template, the writing of the response.                           *)
(***************************************************************************)
Workers == {1, 2}

WorkerIdle ==
    [pc |-> "idle", status |-> 0, name |-> "", binding |-> NoBinding,
     isPartial |-> FALSE, tname |-> "", buf |-> <<>>, err |-> NoError,
     rw |-> NewWriter, walk |-> 0, seen |-> {}]

\* HTML up to the execution: lines 98-115.
WorkerBind(p) ==
    /\ wk[p].pc \in {"idle", "done"}
    /\ ~opt.IsDevelopment
    /\ \E name \in WorkerNames, binding \in Bindings, isPartial \in BOOLEAN :
          LET q == RenderPrepare(opt, funcs, TestRequest, name, binding,
                                 isPartial)
          IN  /\ funcs' = q.funcs
              /\ wk' = [wk EXCEPT ![p] =
                           [WorkerIdle EXCEPT !.pc = "bound",
                               !.status = StatusOK, !.name = name,
                               !.binding = binding, !.isPartial = isPartial,
                               !.tname = q.name,
                               !.seen = IF q.name = name THEN {}
                                        ELSE {templates.set}]]
    /\ UNCHANGED <<opt, templates, rcall, rbuf, rwr, rret, bridgeVars, flashVars>>

\* ExecuteTemplate: line 121, with the functions bound on the set now.
WorkerExecute(p) ==
    /\ wk[p].pc = "bound"
    /\ LET r == ExecuteTemplate(wk[p].tname, wk[p].binding, funcs)
       IN  wk' = [wk EXCEPT ![p].pc = "executed", ![p].buf = r.out,
                            ![p].err = r.err,
                            ![p].seen = @ \cup {templates.set}]
    /\ templates' = Escaped(templates)
    /\ UNCHANGED <<opt, funcs, rcall, rbuf, rwr, rret, bridgeVars, flashVars>>

\* The response: lines 122-128.
WorkerRespond(p) ==
    /\ wk[p].pc = "executed"
    /\ wk' = [wk EXCEPT ![p].pc = "done",
                 ![p].rw = HTMLRespond(NewWriter, wk[p].status,
                                       [out |-> wk[p].buf, err |-> wk[p].err])]
    /\ UNCHANGED <<renderVars, bridgeVars, flashVars>>

WorkersIdle == wk = [p \in Workers |-> WorkerIdle]

(***************************************************************************)
(* Development mode: every call of HTML compiles the directory again, in   *)
(* steps that other requests run between: the assignment of a new, empty   *)
(* set to r.templates, then one parse per file of the walk.                *)
(***************************************************************************)
\* The files of the directory in the order filepath.Walk visits them.
WalkOrder ==
    <<"about", "badData", "content", "home", "layout", "nav", "nav-home",
      "page", "side">>

\* What the requests of a development server render.
ReloadNames == {"content", "about"}

ReloadBindings == {b \in Bindings : b.kind = "string" /\ Len(b.text) = 4}

\* HTML, lines 98-99, and compileTemplatesFromDir, lines 286-287: r.templates
\* is a new set that holds no template.
ReloadStart(p) ==
    /\ wk[p].pc \in {"idle", "done"}
    /\ opt.IsDevelopment
    /\ \E name \in ReloadNames, binding \in ReloadBindings :
          wk' = [wk EXCEPT ![p] =
                    [WorkerIdle EXCEPT !.pc = "walking", !.status = StatusOK,
                        !.name = name, !.binding = binding]]
    /\ templates' = [set |-> {}, escaped |-> FALSE]
    /\ funcs' = HelperFuncs
    /\ UNCHANGED <<opt, rcall, rbuf, rwr, rret, bridgeVars, flashVars>>

\* One file of the walk, lines 313-328: the template is added to the set
\* r.templates is now, with helperFuncs bound; Parse refuses a set that was
\* executed and template.Must panics (the template New left in the set is
\* not kept in the model).
ReloadWalk(p) ==
    /\ wk[p].pc = "walking"
    /\ wk[p].walk < Len(WalkOrder)
    /\ IF templates.escaped
       THEN /\ wk' = [wk EXCEPT ![p].pc = "panicked"]
            /\ UNCHANGED <<templates, funcs>>
       ELSE /\ wk' = [wk EXCEPT ![p].walk = @ + 1]
            /\ templates' = [templates EXCEPT
                                !.set = @ \cup {WalkOrder[wk[p].walk + 1]}]
            /\ funcs' = HelperFuncs
    /\ UNCHANGED <<opt, rcall, rbuf, rwr, rret, bridgeVars, flashVars>>

\* HTML after the walk, lines 103-115: addLayoutFuncs looks the name up in
\* the set r.templates is now.
ReloadBind(p) ==
    /\ wk[p].pc = "walking"
    /\ wk[p].walk = Len(WalkOrder)
    /\ IF opt.Layout # "" /\ ~wk[p].isPartial
       THEN /\ funcs' = AddLayoutFuncs(funcs, TestRequest, wk[p].name,
                                       wk[p].binding)
            /\ wk' = [wk EXCEPT ![p].pc = "bound", ![p].tname = opt.Layout,
                                ![p].seen = @ \cup {templates.set}]
       ELSE /\ funcs' = funcs
            /\ wk' = [wk EXCEPT ![p].pc = "bound", ![p].tname = wk[p].name]
    /\ UNCHANGED <<opt, templates, rcall, rbuf, rwr, rret, bridgeVars, flashVars>>

(***************************************************************************)
(* The specifications: the bridge serving requests (Spec), one Render      *)
(* serving calls one after the other (RenderSpec), one Render with a       *)
(* layout serving two requests at once (ConcSpec).                         *)
(***************************************************************************)
Init ==
    /\ BridgeInit
    /\ opt = [Layout |-> "layout", IsDevelopment |-> FALSE]
    /\ RenderIdle
    /\ WorkersIdle
    /\ FlashIdle

Next ==
    \/ ServePassthrough
    \/ ServePost
    \/ ServeGet
    \/ HandlerWriteHeader
    \/ HandlerWrite
    \/ HandlerSetLocation
    \/ ReturnPassthrough
    \/ ReturnPost
    \/ ReturnGet

Spec == Init /\ [][Next]_vars

RenderSpecInit == BridgeInit /\ RenderInit /\ WorkersIdle /\ FlashIdle

RenderNext == HTML \/ String

RenderSpec == RenderSpecInit /\ [][RenderNext]_vars

ConcInit ==
    /\ BridgeInit
    /\ opt = [Layout |-> "layout", IsDevelopment |-> FALSE]
    /\ RenderIdle
    /\ WorkersIdle
    /\ FlashIdle

ConcNext ==
    \E p \in Workers : WorkerBind(p) \/ WorkerExecute(p) \/ WorkerRespond(p)

ConcSpec == ConcInit /\ [][ConcNext]_vars

ReloadInit ==
    /\ BridgeInit
    /\ opt = [Layout |-> "layout", IsDevelopment |-> TRUE]
    /\ RenderIdle
    /\ WorkersIdle
    /\ FlashIdle

ReloadNext ==
    \E p \in Workers :
        \/ ReloadStart(p)
        \/ ReloadWalk(p)
        \/ ReloadBind(p)
        \/ WorkerExecute(p)
        \/ WorkerRespond(p)

ReloadSpec == ReloadInit /\ [][ReloadNext]_vars

HelperNext == HelperHTML \/ HelperString

HelperSpec == RenderSpecInit /\ [][HelperNext]_vars

FlashInit ==
    /\ BridgeInit
    /\ opt = [Layout |-> "layout", IsDevelopment |-> FALSE]
    /\ RenderIdle
    /\ WorkersIdle
    /\ FlashIdle

FlashNext == FlashSet \/ FlashGet

FlashSpec == FlashInit /\ [][FlashNext]_vars

\* The bridge serving the requests of Spec and those of clients that write
\* their Cookie header themselves.
ForgedNext == Next \/ ServeForged

ForgedSpec == Init /\ [][ForgedNext]_vars

\* The bridge converting the redirects of marked POST requests, for every
\* Location value.
ScriptNext == ServePost \/ ScriptSetLocation \/ ReturnPost

ScriptSpec == Init /\ [][ScriptNext]_vars

(***************************************************************************)
(* What the wrapped handler did, read from its calls.                      *)
(***************************************************************************)
ApplyOp(rw, o) ==
    CASE o.op = "WriteHeader" -> WriterWriteHeader(rw, o.code)
      [] o.op = "Write"       -> WriterWrite(rw, <<o.b>>)
      [] o.op = "Location"    -> [rw EXCEPT !.hdr = HeaderSet(@, "Location", o.l)]

RECURSIVE ApplyOps(_, _)
ApplyOps(rw, ops) ==
    IF ops = <<>> THEN rw ELSE ApplyOps(ApplyOp(rw, Head(ops)), Tail(ops))

\* The response of a handler that made the calls ops on the server's own
\* writer.
DirectWriter(ops) == WriterFinish(ApplyOps(NewWriter, ops))

\* The Location header the handler left on the header collection.
RECURSIVE HandlerLocation(_)
HandlerLocation(ops) ==
    IF ops = <<>> THEN <<>>
    ELSE IF ops[Len(ops)].op = "Location" THEN ops[Len(ops)].l
    ELSE HandlerLocation(SubSeq(ops, 1, Len(ops) - 1))

\* The bytes the handler wrote, in order.
RECURSIVE HandlerBody(_)
HandlerBody(ops) ==
    IF ops = <<>> THEN <<>>
    ELSE (IF Head(ops).op = "Write" THEN <<Head(ops).b>> ELSE <<>>)
         \o HandlerBody(Tail(ops))

\* The code the handler's WriteHeader calls left recorded: the last one, or
\* the 0 a staller starts with.
RECURSIVE HandlerCode(_)
HandlerCode(ops) ==
    IF ops = <<>> THEN 0
    ELSE IF ops[Len(ops)].op = "WriteHeader" THEN ops[Len(ops)].code
    ELSE HandlerCode(SubSeq(ops, 1, Len(ops) - 1))

Count(s, e) == Cardinality({i \in 1..Len(s) : s[i] = e})

Has(s, e) == \E i \in 1..Len(s) : s[i] = e

\* Every e1 of s comes before every e2 of s.
Before(s, e1, e2) ==
    \A i, j \in 1..Len(s) : (s[i] = e1 /\ s[j] = e2) => i < j

\* The response sets (does not expire) a navigation cookie.
SetsFreshCookie(h) ==
    \E i \in 1..Len(h.SetCookie) :
        h.SetCookie[i].name = TurbolinksCookie /\ h.SetCookie[i].MaxAge >= 0

\* The response expires the navigation cookie.
ExpiresCookie(h) ==
    \E i \in 1..Len(h.SetCookie) :
        h.SetCookie[i].name = TurbolinksCookie /\ h.SetCookie[i].MaxAge < 0

JarEmpty == \A cp \in CookiePaths : jar[cp] = <<>>

(***************************************************************************)
(* The claims about the redirect bridge.                                   *)
(***************************************************************************)
\* C1: a request without the Turbolinks-Referrer header, of any method and with
\* or without a navigation cookie, is served by the wrapped handler on the
\* original writer: while the handler runs and after it has returned the
\* writer is what the handler's calls make of a fresh writer, no staller is
\* created or flushed, and the bridge adds neither a Set-Cookie nor a
\* Turbolinks-Location header.
C1_Passthrough ==
    ~Marked(req) =>
        /\ rs.made = 0 /\ rs.sends = 0
        /\ ~Has(ev, "new") /\ ~Has(ev, "send")
        /\ w.hdr.SetCookie = <<>> /\ w.hdr.TurbolinksLocation = <<>>
        /\ pc = "serving" => w = ApplyOps(NewWriter, hops)
        /\ pc = "done" =>
              /\ w = DirectWriter(hops)
              /\ Delivered(w)
              /\ w.body = HandlerBody(hops)
              /\ w.sent.SetCookie = <<>> /\ w.sent.TurbolinksLocation = <<>>

\* C1 witness: an unmarked POST carrying a navigation cookie, whose handler
\* redirected, was answered with the handler's 302 and Location.
C1_Witness ==
    /\ pc = "done" /\ ~Marked(req) /\ req.method = "POST"
    /\ req.cookies # <<>>
    /\ w.status = StatusFound /\ w.sent.Location = <<LocRoot>>
    /\ w.body # <<>>

\* C2: a marked POST whose handler left a non-empty Location header is
\* answered, whatever status the handler recorded, with status 200,
\* Content-Type text/javascript, X-Content-Type-Options nosniff and no
\* Location header.
C2_PostConversionHead ==
    (pc = "done" /\ Marked(req) /\ req.method = "POST"
        /\ HandlerLocation(hops) # <<>>) =>
        /\ Delivered(w)
        /\ w.status = StatusOK
        /\ w.sent.ContentType = <<"text/javascript">>
        /\ w.sent.XContentTypeOptions = <<"nosniff">>
        /\ w.sent.Location = <<>>

\* C2 witness: a marked POST whose handler recorded 302 with a Location.
C2_Witness ==
    /\ pc = "done" /\ Marked(req) /\ req.method = "POST"
    /\ HandlerLocation(hops) = LocRoot
    /\ Has(hops, [op |-> "WriteHeader", code |-> StatusFound])
    /\ w.status = StatusOK

\* C3: a marked POST whose handler left a non-empty Location header L is
\* answered with exactly the visit script for L as its body, whatever the
\* handler wrote.
C3_PostConversionBody ==
    (pc = "done" /\ Marked(req) /\ req.method = "POST"
        /\ HandlerLocation(hops) # <<>>) =>
        /\ Delivered(w)
        /\ w.body = VisitScript(HandlerLocation(hops))

\* C3, the case the code serves as claimed: the handler wrote no body.
C3_Witness ==
    /\ pc = "done" /\ Marked(req) /\ req.method = "POST"
    /\ HandlerLocation(hops) = LocRoot
    /\ w.body = VisitScript(LocRoot)

\* C4: a marked request, of any method, that carries the navigation cookie of
\* an earlier redirect to L is answered with Turbolinks-Location L and a
\* Set-Cookie that expires the cookie.
C4_CookieRoundTrip ==
    (pc = "done" /\ Marked(req) /\ req.cookies # <<>>) =>
        /\ Delivered(w)
        /\ w.sent.TurbolinksLocation = req.pending
        /\ ExpiresCookie(w.sent)

\* C4, the case the code serves as claimed: a GET carrying the cookie of a
\* redirect to / is answered with Turbolinks-Location /.
C4_Witness ==
    /\ pc = "done" /\ Marked(req) /\ req.method = "GET"
    /\ req.cookies # <<>> /\ req.pending = <<LocRoot>>
    /\ Delivered(w)
    /\ w.sent.TurbolinksLocation = <<LocRoot>> /\ ExpiresCookie(w.sent)

\* C5: once a response has advertised a pending location (and set no new
\* navigation cookie), the client's jar holds no navigation cookie, so no
\* later request carries it.
C5_CookieSingleUse ==
    (pc = "done" /\ Delivered(w) /\ w.sent.TurbolinksLocation # <<>>
        /\ ~SetsFreshCookie(w.sent)) => JarEmpty

\* C5, the case the code serves as claimed: a request to / that carried the
\* cookie leaves the jar empty.
C5_Witness ==
    /\ pc = "done" /\ Delivered(w) /\ w.sent.TurbolinksLocation # <<>>
    /\ req.path = <<>> /\ JarEmpty

\* C6: a marked request that is not a POST and whose handler left a non-empty
\* Location header L is answered with the handler's status and Location and a
\* Set-Cookie of the navigation cookie with value L, Path=/ and HttpOnly.
C6_NonPostRedirect ==
    (pc = "done" /\ Marked(req) /\ req.method # "POST"
        /\ HandlerLocation(hops) # <<>>) =>
        /\ Delivered(w)
        /\ w.status = DirectWriter(hops).status
        /\ w.sent.Location = <<HandlerLocation(hops)>>
        /\ \E i \in 1..Len(w.sent.SetCookie) :
              /\ w.sent.SetCookie[i].name = TurbolinksCookie
              /\ w.sent.SetCookie[i].value = HandlerLocation(hops)
              /\ w.sent.SetCookie[i].Path = <<<<>>>>
              /\ w.sent.SetCookie[i].HttpOnly
              /\ w.sent.SetCookie[i].MaxAge >= 0

\* C6, the case the code serves as claimed: a 302 to / stays a 302 and sets
\* the cookie.
C6_Witness ==
    /\ pc = "done" /\ Marked(req) /\ req.method = "GET"
    /\ hops = <<[op |-> "Location", l |-> LocRoot],
                [op |-> "WriteHeader", code |-> StatusFound]>>
    /\ w.status = StatusFound /\ w.sent.Location = <<LocRoot>>
    /\ SetsFreshCookie(w.sent)
    /\ jar[<<>>] = <<LocRoot>>

\* C7: in every wrapped path exactly one staller is created for the request
\* and nothing reaches the real writer while the handler runs; when Handler
\* is done SendResponse has been called exactly once, as its last step, after
\* the handler returned and after the bridge's rewrites, so what was sent is
\* the staller's code and buffer under the header collection as rewritten.
C7_FlushOnce ==
    Marked(req) =>
        /\ rs.made = 1 /\ Count(ev, "new") = 1
        /\ pc = "serving" =>
              rs.sends = 0 /\ ~Has(ev, "send") /\ ~w.wroteHeader /\ w.body = <<>>
        /\ pc = "done" =>
              /\ rs.sends = 1 /\ Count(ev, "send") = 1
              /\ ev[Len(ev)] = "send"
              /\ Before(ev, "new", "returned")
              /\ Before(ev, "returned", "convert")
              /\ Before(ev, "returned", "setcookie")
              /\ Before(ev, "returned", "send")
              /\ Delivered(w) =>
                    w.status = rs.code /\ w.body = rs.buf /\ w.sent = w.hdr

\* C7 witness: a marked GET that carried a pending cookie and whose handler
\* redirected again has been flushed.
C7_Witness ==
    /\ pc = "done" /\ Marked(req) /\ req.method = "GET"
    /\ Has(ev, "advertise") /\ Has(ev, "setcookie")
    /\ rs.sends = 1 /\ Delivered(w)

(***************************************************************************)
(* The claims about Render.                                                *)
(***************************************************************************)
\* C8: Render.HTML sends nothing before the evaluation has ended.  If the
\* evaluation failed, the response is a 500 whose body is the error's text,
\* without the output the template produced before it failed, and the error
\* is returned; if it succeeded, the response has the requested status and the
\* whole buffer as its body, and no error is returned.
C8_HTMLBuffersFirst ==
    rcall.fn = "HTML" =>
        /\ Delivered(rwr) /\ rwr.wroteHeader
        /\ rret.err # NoError =>
              /\ rwr.status = StatusInternalServerError
              /\ rwr.body = ErrorBody(rret.err)
        /\ rret.err = NoError =>
              /\ rwr.status = rcall.status
              /\ rwr.body = rbuf

\* C8 witness: a page that failed after the layout had written its head was
\* answered with 500 and the error's text, not with the requested 200.
C8_Witness ==
    /\ rcall.fn = "HTML" /\ rcall.status = StatusOK
    /\ rcall.name = "badData" /\ ~rcall.isPartial
    /\ rret.err # NoError
    /\ rbuf = <<"head">>
    /\ rwr.status = StatusInternalServerError
    /\ rwr.body = ErrorBody(rret.err)

\* C9: rendering a name the registry does not hold returns an error and writes
\* no 200, in every state of the Render: HTML writes 500, String returns the
\* empty string.
C9_MissingTemplateErrors ==
    (rcall.fn # "" /\ ~TemplateLookup(rcall.name)) =>
        /\ rret.err # NoError
        /\ rwr.status # StatusOK
        /\ rcall.fn = "HTML" => rwr.status = StatusInternalServerError
        /\ rcall.fn = "String" => rret.str = <<>>

\* C9, the case the code serves as claimed: the missing name rendered by a
\* Render whose helpers were never bound.
C9_Witness ==
    /\ rcall.fn = "HTML" /\ ~TemplateLookup(rcall.name)
    /\ opt.Layout # "" /\ ~rcall.isPartial
    /\ ~funcs.bound
    /\ rret.err # NoError /\ rwr.status = StatusInternalServerError

\* What a request renders when no other request runs: the layout around its
\* own content template evaluated with its own data.
OwnRender(k) ==
    ExecuteTemplate(opt.Layout, k.binding,
                    [bound |-> TRUE, name |-> k.name, binding |-> k.binding,
                     req |-> TestRequest])

\* C10: of two requests rendering through one Render with a layout, in any
\* interleaving of their steps, each gets the layout around its own content
\* template evaluated with its own data (or that evaluation's error).
C10_RenderIsolation ==
    \A p \in Workers :
        (wk[p].pc \in {"executed", "done"} /\ ~wk[p].isPartial
            /\ TemplateLookup(wk[p].name)) =>
            /\ wk[p].buf = OwnRender(wk[p]).out
            /\ wk[p].err = OwnRender(wk[p]).err

\* C10, the case the code serves as claimed: both requests are done and each
\* has its own page.
C10_Witness ==
    /\ \A p \in Workers :
          /\ wk[p].pc = "done" /\ ~wk[p].isPartial
          /\ wk[p].buf = OwnRender(wk[p]).out
          /\ wk[p].err = NoError
    /\ wk[1].name = "content" /\ wk[2].name = "about"

\* C11: while development mode recompiles the templates, no render running
\* on the same Render observes an empty or partly filled registry: every
\* lookup a request makes (addLayoutFuncs, ExecuteTemplate) finds all the
\* templates of the directory.
C11_ReloadAtomic ==
    \A p \in Workers : \A seen \in wk[p].seen : seen = DOMAIN Templates

\* C11, the case the code serves as claimed: a request recompiled, rendered
\* its page and saw the whole registry in both lookups.
C11_Witness ==
    \E p \in Workers :
        /\ wk[p].pc = "done" /\ opt.IsDevelopment
        /\ wk[p].walk = Len(WalkOrder)
        /\ wk[p].seen = {DOMAIN Templates}
        /\ wk[p].err = NoError /\ wk[p].buf = OwnRender(wk[p]).out

(***************************************************************************)
(* The claims about the responseStaller.                                   *)
(***************************************************************************)
\* C12: whatever WriteHeader and Write calls are made on the staller (by the
\* handler, and by the bridge in the POST conversion), nothing reaches the
\* real writer before SendResponse: no status, no body, no failure; after
\* SendResponse the real writer has sent the recorded status and, as body,
\* all the Write payloads in call order.
C12_StallerBuffers ==
    Marked(req) =>
        /\ pc = "serving" =>
              ~w.wroteHeader /\ w.body = <<>> /\ Delivered(w)
        /\ pc = "done" =>
              /\ Delivered(w)
              /\ w.wroteHeader
              /\ w.status = (IF Has(ev, "convert") THEN StatusOK
                              ELSE HandlerCode(hops))
              /\ w.body = HandlerBody(hops) \o
                              (IF Has(ev, "convert")
                               THEN VisitScript(HandlerLocation(hops))
                               ELSE <<>>)

\* C12, the case the code serves as claimed: the handler recorded 302 and
\* wrote a and then b; the real writer sent 302 and ab.
C12_Witness ==
    /\ pc = "done" /\ Marked(req) /\ req.method = "GET"
    /\ hops = <<[op |-> "WriteHeader", code |-> StatusFound],
                [op |-> "Write", b |-> "a"], [op |-> "Write", b |-> "b"]>>
    /\ w.status = StatusFound /\ w.body = <<"a", "b">>

\* C13: the header changes the bridge makes after the handler has returned
\* (Content-Type, X-Content-Type-Options and the removal of Location in the
\* POST conversion, the Set-Cookie of a redirect) are in the response the
\* client receives: the headers sent are the header collection as the bridge
\* left it, and a handler that had called WriteHeader, with or without a
\* Write, does get a response.
C13_LateHeaders ==
    (pc = "done" /\ Marked(req)) =>
        /\ HandlerCode(hops) # 0 => Delivered(w)
        /\ Delivered(w) =>
              /\ w.sent = w.hdr
              /\ Has(ev, "convert") =>
                    /\ w.sent.ContentType = <<"text/javascript">>
                    /\ w.sent.XContentTypeOptions = <<"nosniff">>
                    /\ w.sent.Location = <<>>
              /\ Has(ev, "setcookie") =>
                    /\ w.sent.SetCookie # <<>>
                    /\ LET c == w.sent.SetCookie[Len(w.sent.SetCookie)]
                       IN  c.name = TurbolinksCookie /\ c.MaxAge >= 0
                             /\ c.value = SanitizeCookieValue(HandlerLocation(hops))

\* C13 witness: the handler set Location, called WriteHeader(302) and Write,
\* and the response still carries the cookie the bridge added afterwards.
C13_Witness ==
    /\ pc = "done" /\ Marked(req) /\ req.method = "GET"
    /\ hops = <<[op |-> "Location", l |-> LocRoot],
                [op |-> "WriteHeader", code |-> StatusFound],
                [op |-> "Write", b |-> "a"]>>
    /\ Delivered(w) /\ w.status = StatusFound /\ w.body = <<"a">>
    /\ SetsFreshCookie(w.sent)

(***************************************************************************)
(* The claims about the composition of layout, content and partials.       *)
(***************************************************************************)
\* The closures a call of HTML or String with arguments k binds.
OwnFuncs(k) ==
    [bound |-> TRUE, name |-> k.name, binding |-> k.binding, req |-> k.req]

\* What the content template of call k produces for the data of k.
ContentOutput(k) == ExecuteTemplate(k.name, k.binding, OwnFuncs(k))

\* The text of the layout before and after its yield.
LayoutPrefix == <<Templates["layout"][1].s>>

LayoutSuffix == <<Templates["layout"][3].s>>

\* C14: with a layout and without the partial flag, HTML and String of an
\* existing content template that evaluates its data without error give the
\* layout's prefix, the content template's output as it is (not escaped
\* again) and the layout's suffix; HTML sends it with the requested status.
\* Layout head{{yield}}foot and content <p>{{.}}</p> with "test" give
\* head<p>test</p>foot.
C14_LayoutComposition ==
    (rcall.fn # "" /\ opt.Layout # "" /\ ~rcall.isPartial
        /\ TemplateLookup(rcall.name)
        /\ ContentOutput(rcall).err = NoError) =>
        /\ rret.err = NoError
        /\ rbuf = LayoutPrefix \o ContentOutput(rcall).out \o LayoutSuffix
        /\ rcall.fn = "HTML" =>
              rwr.status = rcall.status /\ rwr.body = rbuf
        /\ rcall.fn = "String" => rret.str = rbuf
        /\ (rcall.name = "content" /\ rcall.binding.text = <<"t", "e", "s", "t">>)
              => rbuf = <<"head", "<p>", "t", "e", "s", "t", "</p>", "foot">>

\* C14 witness: after another page was rendered, HTML of content with "test"
\* and status 302 sent head<p>test</p>foot with 302.
C14_Witness ==
    /\ rcall.fn = "HTML" /\ opt.Layout = "layout" /\ ~rcall.isPartial
    /\ rcall.name = "content" /\ rcall.status = StatusFound
    /\ rwr.status = StatusFound
    /\ rwr.body = <<"head", "<p>", "t", "e", "s", "t", "</p>", "foot">>

\* The template calls none of the helper functions.
HelperFree(name) ==
    \A i \in 1..Len(Templates[name]) :
        Templates[name][i].k \in {"text", "dot", "field"}

PartialFor(n, p) ==
    IF (n \o "-" \o p) \in DOMAIN Templates THEN <<n \o "-" \o p>>
    ELSE IF n \in DOMAIN Templates THEN <<n>>
    ELSE <<>>

\* The output of the page of call k with every partial(n) replaced by the
\* output of the template the rule gives, or by nothing.
RECURSIVE PageOutput(_, _)
PageOutput(k, nodes) ==
    IF nodes = <<>> THEN <<>>
    ELSE LET n == Head(nodes)
         IN  (IF n.k # "partial" THEN EvalNode(k.name, n, k.binding, OwnFuncs(k)).out
              ELSE IF PartialFor(n.s, k.name) = <<>> THEN <<>>
              ELSE ExecuteTemplate(PartialFor(n.s, k.name)[1], k.binding,
                                   OwnFuncs(k)).out)
             \o PageOutput(k, Tail(nodes))

\* C16: in every render of the page home, which calls partial for nav (the
\* set holds nav-home and nav), side (the set holds only side) and none (the
\* set holds neither), the page's output is <u>, the output of nav-home, the
\* output of side, nothing, </u>, and the render returns no error.
C16_PartialResolution ==
    (rcall.fn # "" /\ rcall.name = "home") =>
        /\ rret.err = NoError
        /\ rbuf = IF opt.Layout # "" /\ ~rcall.isPartial
                  THEN LayoutPrefix \o PageOutput(rcall, Templates["home"])
                          \o LayoutSuffix
                  ELSE PageOutput(rcall, Templates["home"])

\* C16, the case the code serves as claimed: home rendered through the
\* layout with "test".
C16_Witness ==
    /\ rcall.fn = "HTML" /\ rcall.name = "home" /\ ~rcall.isPartial
    /\ opt.Layout = "layout"
    /\ rret.err = NoError
    /\ rwr.body = <<"head", "<u>", "homenav:", "t", "e", "s", "t", "side",
                    "</u>", "foot">>

(***************************************************************************)
(* The claims about flash messages and the helpers.                        *)
(***************************************************************************)
\* C17: a request that presents the cookie Flash set gets from GetFlash the
\* message as it was set, and its response expires the cookie; and a client
\* that follows the Set-Cookie headers gets each message from GetFlash once
\* only: after that GetFlash returns the empty string.
C17_FlashRoundTrip ==
    /\ (fl.op = "get" /\ fl.presented # <<>>) =>
          /\ fl.ret = fl.message
          /\ \E i \in 1..Len(fl.sent) :
                fl.sent[i].name = DefaultFlashCookieName /\ fl.sent[i].MaxAge < 0
    /\ fl.gets <= 1
    /\ (fl.op = "get" /\ fl.gets = 1) => \A cp \in CookiePaths : fjar[cp] = <<>>

\* C17, the case the code serves as claimed: a two-byte message was read
\* back once, and the jar is empty afterwards.
C17_Witness ==
    /\ fl.op = "get" /\ fl.message = <<"h", "~">>
    /\ fl.presented = <<<<"a", "H", "4", "=">>>>
    /\ fl.ret = <<"h", "~">> /\ fl.gets = 1
    /\ \A cp \in CookiePaths : fjar[cp] = <<>>

\* What the page page shows to request rq: here if rq is for /about, and
\* the flash message rq carries.
PageFor(rq) ==
    <<"<nav>">> \o (IF rq.path = "/about" THEN <<"here">> ELSE <<>>)
        \o HTMLEscapeString(GetFlash(EmptyHeader, rq.flash).message)
        \o <<"</nav>">>

\* C18: in every render of the page page (HTML or String, with or without
\* the partial flag, with or without a layout, after any earlier renders)
\* currentpage answers for the path of the request passed to the call and
\* flash reads the flash cookie of that request and expires it on the writer
\* passed to the call.
C18_HelpersUseCurrentRequest ==
    (rcall.fn # "" /\ rcall.name = "page") =>
        /\ rret.err = NoError
        /\ rbuf = IF opt.Layout # "" /\ ~rcall.isPartial
                  THEN LayoutPrefix \o PageFor(rcall.req) \o LayoutSuffix
                  ELSE PageFor(rcall.req)
        /\ rwr.hdr.SetCookie = GetFlash(EmptyHeader, rcall.req.flash).hdr.SetCookie

\* C18, the case the code serves as claimed: after a render for /, the page
\* rendered through the layout for /about, with the flash cookie of "hi",
\* shows both and expires the cookie.
C18_Witness ==
    /\ rcall.fn = "HTML" /\ rcall.name = "page" /\ ~rcall.isPartial
    /\ opt.Layout = "layout" /\ rcall.req.path = "/about"
    /\ rwr.body = <<"head", "<nav>", "here", "h", "i", "</nav>", "foot">>
    /\ Len(rwr.sent.SetCookie) = 1
    /\ rwr.sent.SetCookie[1].MaxAge < 0

\* C19: when template badData fails on its data (a string has no field),
\* the render returns one execution error whose template name is badData,
\* rendered directly (no layout, or the partial flag) or as the content
\* template through the layout's yield.
C19_ErrorNamesTemplate ==
    (rcall.fn # "" /\ rcall.name = "badData" /\ rcall.binding.kind # "struct")
        => /\ rret.err.kind = "exec"
           /\ rret.err.name = "badData"

\* C19, the case the code serves as claimed: badData rendered without a
\* layout, as in the test.
C19_Witness ==
    /\ rcall.fn = "HTML" /\ rcall.name = "badData" /\ opt.Layout = ""
    /\ rcall.binding.kind = "string"
    /\ rret.err = ExecError("badData", "badData")
    /\ rwr.status = StatusInternalServerError

\* The header value is the word https in some mix of upper and lower case.
IsHttpsWord(s) ==
    /\ Len(s) = 5
    /\ s[1] \in {"h", "H"} /\ s[2] \in {"t", "T"} /\ s[3] \in {"t", "T"}
    /\ s[4] \in {"p", "P"} /\ s[5] \in {"s", "S"}

\* C20: IsTLS is true exactly for a request that arrived over TLS or whose
\* X-Forwarded-Proto is https in any case, and the navigation cookie of a
\* redirect answered to a marked request that is not a POST has Secure
\* exactly then.
C20_SecureIffTLS ==
    /\ IsTLS(req) <=> (req.tls \/ IsHttpsWord(req.xfp))
    /\ (pc = "done" /\ Marked(req) /\ req.method # "POST"
          /\ HandlerLocation(hops) # <<>>) =>
          /\ w.hdr.SetCookie # <<>>
          /\ LET c == w.hdr.SetCookie[Len(w.hdr.SetCookie)]
             IN  /\ c.name = TurbolinksCookie /\ c.MaxAge >= 0
                 /\ c.Secure <=> (req.tls \/ IsHttpsWord(req.xfp))
          /\ Delivered(w) => w.sent.SetCookie = w.hdr.SetCookie

\* C20 witness: a redirect answered to a plain-HTTP request that declares
\* X-Forwarded-Proto: HTTPS sets a Secure cookie.
C20_Witness ==
    /\ pc = "done" /\ Marked(req) /\ req.method = "GET"
    /\ ~req.tls /\ req.xfp = <<"H", "T", "T", "P", "S">>
    /\ Delivered(w) /\ w.status = StatusFound
    /\ Len(w.sent.SetCookie) = 1 /\ w.sent.SetCookie[1].Secure

(***************************************************************************)
(* The claims about the bridge as a whole.                                 *)
(***************************************************************************)
\* C21: the bridge never fails outward.  Whatever the wrapped handler did (no
\* call, a body without a status, a status, a redirect), Handler has returned
\* with a response delivered, the handler was invoked and, on a marked
\* request, its response flushed; and a marked request that is not a POST and
\* carries no navigation cookie, or only a malformed one, gets no
\* Turbolinks-Location header and no expiring Set-Cookie.
C21_NeverFails ==
    pc = "done" =>
        /\ Delivered(w) /\ w.wroteHeader
        /\ Has(ev, "serve")
        /\ Marked(req) => Has(ev, "send")
        /\ (Marked(req) /\ req.method # "POST"
               /\ req.cookies \in {<<>>, <<MalformedCookie>>}) =>
              /\ w.hdr.TurbolinksLocation = <<>>
              /\ ~ExpiresCookie(w.hdr)
              /\ ~Has(ev, "advertise") /\ ~Has(ev, "expire")

\* C21, the case the code serves as claimed: a marked GET with a malformed
\* navigation cookie, whose handler recorded 200 and wrote a body, is answered
\* with that status and body and no pending navigation.
C21_Witness ==
    /\ pc = "done" /\ Marked(req) /\ req.method = "GET"
    /\ req.cookies = <<MalformedCookie>>
    /\ hops = <<[op |-> "WriteHeader", code |-> StatusOK],
                [op |-> "Write", b |-> "a"]>>
    /\ Delivered(w) /\ w.status = StatusOK /\ w.body = <<"a">>
    /\ w.sent.TurbolinksLocation = <<>> /\ w.sent.SetCookie = <<>>

JSCodePoint(hex) ==
    CASE hex = <<"0", "0", "3", "C">> -> <<"<">>
      [] hex = <<"0", "0", "3", "E">> -> <<">">>
      [] hex = <<"0", "0", "2", "6">> -> <<"&">>
      [] hex = <<"0", "0", "3", "D">> -> <<"=">>
      [] hex = <<"0", "0", "0", "A">> -> <<"\n">>
      [] hex = <<"0", "0", "0", "D">> -> <<"\r">>
      [] hex = <<"0", "0", "0", "9">> -> <<"\t">>
      [] OTHER -> <<"?">>

\* The characters that may not stand raw inside a double-quoted string
\* literal of a script.
RawScriptChars == {"\"", "'", "\n", "\r", "<", ">"}

\* A JavaScript engine reading the inside of a string literal: whether the
\* text is made of plain characters and whole escape sequences only, and the
\* string it denotes.
RECURSIVE JSRead(_)
JSRead(t) ==
    IF t = <<>> THEN [ok |-> TRUE, str |-> <<>>]
    ELSE IF Head(t) = "\\"
    THEN IF Len(t) >= 2 /\ t[2] \in {"\\", "'", "\""}
         THEN LET rest == JSRead(SubSeq(t, 3, Len(t)))
              IN  [ok |-> rest.ok, str |-> <<t[2]>> \o rest.str]
         ELSE IF Len(t) >= 6 /\ t[2] = "u"
         THEN LET rest == JSRead(SubSeq(t, 7, Len(t)))
              IN  [ok |-> rest.ok,
                   str |-> JSCodePoint(SubSeq(t, 3, 6)) \o rest.str]
         ELSE [ok |-> FALSE, str |-> <<>>]
    ELSE IF Head(t) \in RawScriptChars THEN [ok |-> FALSE, str |-> <<>>]
    ELSE LET rest == JSRead(Tail(t))
         IN  [ok |-> rest.ok, str |-> <<Head(t)>> \o rest.str]

C24_Transparent ==
    (pc = "done" /\ Marked(req) /\ HandlerLocation(hops) = <<>>) =>
        /\ Delivered(w)
        /\ w.status = DirectWriter(hops).status
        /\ w.body = DirectWriter(hops).body

\* C24, the case the code serves as claimed: one WriteHeader and then the
\* body.
C24_Witness ==
    /\ pc = "done" /\ Marked(req) /\ req.method = "POST"
    /\ hops = <<[op |-> "WriteHeader", code |-> StatusFound],
                [op |-> "Write", b |-> "a"], [op |-> "Write", b |-> "b"]>>
    /\ Delivered(w)
    /\ w.status = DirectWriter(hops).status /\ w.status = StatusFound
    /\ w.body = DirectWriter(hops).body /\ w.body = <<"a", "b">>

(***************************************************************************)
(* The claims about the navigation cookie across requests.                 *)
(***************************************************************************)
\* Every Set-Cookie of h that expires the navigation cookie comes before
\* every one that sets it, and there is one of each.
ExpiresBeforeFresh(h) ==
    /\ ExpiresCookie(h) /\ SetsFreshCookie(h)
    /\ \A i, j \in 1..Len(h.SetCookie) :
          (h.SetCookie[i].MaxAge < 0 /\ h.SetCookie[j].MaxAge >= 0) => i < j

\* The navigation cookie the next request to path observes.
ObservedCookie(path) == RequestCookie(CookieHeader(jar, path))

\* C25: chained redirects.  A marked request that is not a POST, carries the
\* navigation cookie of a redirect to A and whose handler redirects again, to
\* B, is answered with Turbolinks-Location A and with the Set-Cookie that
\* expires the old cookie before the one that sets the new one; the client,
\* applying them in order, holds one navigation cookie with value B, and the
\* next request, whatever its path, observes B.
C25_ChainedRedirects ==
    (pc = "done" /\ Marked(req) /\ req.method # "POST"
        /\ req.cookies # <<>> /\ HandlerLocation(hops) # <<>>) =>
        /\ Delivered(w)
        /\ w.sent.TurbolinksLocation = req.pending
        /\ ExpiresBeforeFresh(w.sent)
        /\ \A path \in Paths :
              /\ CookieHeader(jar, path) = <<HandlerLocation(hops)>>
              /\ ObservedCookie(path).ok
              /\ ObservedCookie(path).value = HandlerLocation(hops)

\* C25, the case the code serves as claimed: GET /posts/1 carrying the cookie
\* of a redirect to / redirects to / again with 302; the old cookie is
\* advertised and expired, the new one set, and the jar holds / once.
C25_Witness ==
    /\ pc = "done" /\ Marked(req) /\ req.method = "GET"
    /\ req.path = <<"posts", "1">>
    /\ req.cookies = <<LocRoot>> /\ req.pending = <<LocRoot>>
    /\ HandlerLocation(hops) = LocRoot
    /\ Delivered(w) /\ w.status = StatusFound
    /\ w.sent.TurbolinksLocation = <<LocRoot>>
    /\ ExpiresBeforeFresh(w.sent)
    /\ \A path \in Paths : CookieHeader(jar, path) = <<LocRoot>>

\* C26: the bridge touches the navigation cookie only on marked requests
\* that are not POSTs.  On a marked POST and on a request without the marker,
\* with or without a pending cookie and whether or not the handler
\* redirects, the bridge sets no Turbolinks-Location header and adds no
\* Set-Cookie, neither an expiring nor a fresh one; on a marked request that
\* is not a POST it adds a fresh navigation cookie, once, if and only if the
\* handler left a non-empty Location header.
C26_CookieOnlyOnMarkedNonPost ==
    /\ (pc # "idle" /\ (~Marked(req) \/ req.method = "POST")) =>
          /\ w.hdr.TurbolinksLocation = <<>> /\ w.hdr.SetCookie = <<>>
          /\ w.sent.TurbolinksLocation = <<>> /\ w.sent.SetCookie = <<>>
          /\ ~Has(ev, "advertise") /\ ~Has(ev, "expire")
          /\ ~Has(ev, "setcookie")
    /\ (pc = "done" /\ Marked(req) /\ req.method # "POST") =>
          /\ SetsFreshCookie(w.hdr) <=> HandlerLocation(hops) # <<>>
          /\ Delivered(w) =>
                (SetsFreshCookie(w.sent) <=> HandlerLocation(hops) # <<>>)
          /\ Count(ev, "setcookie") =
                (IF HandlerLocation(hops) # <<>> THEN 1 ELSE 0)
          /\ Cardinality({i \in 1..Len(w.hdr.SetCookie) :
                              w.hdr.SetCookie[i].MaxAge >= 0}) <= 1

\* C26 witness: a marked POST that carried a pending navigation cookie and
\* whose handler redirected was converted without any Turbolinks-Location or
\* Set-Cookie, and the client still holds the cookie.
C26_Witness ==
    /\ pc = "done" /\ Marked(req) /\ req.method = "POST"
    /\ req.cookies = <<LocRoot>>
    /\ HandlerLocation(hops) = LocRoot /\ Has(ev, "convert")
    /\ Delivered(w)
    /\ w.sent.TurbolinksLocation = <<>> /\ w.sent.SetCookie = <<>>
    /\ ~JarEmpty

=============================================================================
